---- MODULE Spec2Model ----
(***************************************************************************)
(* Interactive-session layer of the CLI: the relaunch supervisor           *)
(* (packages/cli/src/utils/relaunch.ts), the PTY backend selector and     *)
(* adapter (pty-adapter, found in src/esbuild.config.js lines 138-294),    *)
(* the TTY capability probe (packages/cli/src/utils/ttyUtils.ts) and the   *)
(* generated launcher (scripts/build-wrapper.ts).                          *)
(*                                                                         *)
(* relaunch.ts holds two revisions of the module one after the other; the  *)
(* later one (lines 76-153) is the one modelled: it is the definition      *)
(* that is in force when both are read in order.                           *)
(*                                                                         *)
(* JavaScript strings that the code inspects are sequences of one-letter   *)
(* strings, so that startsWith is computed and not assumed.  A value that  *)
(* may be undefined/null is an option: << >> is undefined/null, <<v>> is   *)
(* the value v.                                                            *)
(***************************************************************************)
EXTENDS Integers, Sequences, FiniteSets, TLC

\* ------------------------------------------------------------------ bounds

\* How many times a relaunched child may close with the sentinel code.
MaxRestarts == 2

\* ------------------------------------------------------- program constants

\* processUtils.ts: the reserved "restart me" exit code.
RELAUNCH_EXIT_CODE == 199

\* relaunch.ts:101  process.exit(1) of the catch block.
FailureExitCode == 1

\* relaunch.ts:147  resolve(code ?? 1).
DefaultCloseCode == 1

\* ------------------------------------------------------------ pure helpers

None == << >>
Some(v) == <<v>>

\* Fault variant of Coalesce: `code || d`, which also replaces the status 0.
CoalesceFalsy(a, d) == IF a = None \/ a[1] = 0 THEN d ELSE a[1]

\* JavaScript's  a ?? d  on an option.
Coalesce(a, d) == IF a = None THEN d ELSE a[1]

\* String.prototype.startsWith on character sequences.
StartsWith(s, p) == Len(s) >= Len(p) /\ SubSeq(s, 1, Len(p)) = p

\* '/$bunfs/'
BunfsPrefix == <<"/", "$", "b", "u", "n", "f", "s", "/">>

\* 'B:/~BUN/'
WinBunPrefix == <<"B", ":", "/", "~", "B", "U", "N", "/">>

\* JavaScript truthiness of process.env[name]: set, and not the empty string.
Truthy(v) == v # None /\ v[1] # ""

\* Fault variant of IsCompiledBinary: only the Unix prefix is recognised.
IsCompiledBinaryUnixOnly(path) ==
    path # None /\ StartsWith(path[1], BunfsPrefix)

\* relaunch.ts:118-119; path is the option argv[1].
\*   scriptPath?.startsWith('/$bunfs/') || scriptPath?.startsWith('B:/~BUN/')
IsCompiledBinary(path) ==
    /\ path # None
    /\ (StartsWith(path[1], BunfsPrefix) \/ StartsWith(path[1], WinBunPrefix))

\* Fault variant of RelaunchIsSkipped: the environment marker is not looked at.
RelaunchIsSkippedNoEnv(marker, path) ==
    path # None
    /\ (StartsWith(path[1], BunfsPrefix) \/ StartsWith(path[1], WinBunPrefix))

\* relaunch.ts:110-122: the two early returns of relaunchAppInChildProcess.
RelaunchIsSkipped(marker, path) == Truthy(marker) \/ IsCompiledBinary(path)

\* Fault variant of ChildArgs: the user's arguments are placed before the
\* additional script arguments.
ChildArgsUserFirst(bunArgs, path, scriptExtra, userArgs) ==
    bunArgs \o <<path>> \o userArgs \o scriptExtra

\* relaunch.ts:125-131: the child's argument list.
ChildArgs(bunArgs, path, scriptExtra, userArgs) ==
    bunArgs \o <<path>> \o scriptExtra \o userArgs

\* Fault variant of NewEnvMarker: the child inherits the parent's value.
NewEnvMarkerInherited(marker) == marker

\* relaunch.ts:132: { ...process.env, GEMINI_CLI_NO_RELAUNCH: 'true' }
NewEnvMarker(marker) == Some("true")

\* Fault variant of IsTerminalCode: only success ends the loop.
IsTerminalCodeZeroOnly(code) == code = 0

\* relaunch.ts:91: exitCode !== RELAUNCH_EXIT_CODE
IsTerminalCode(code) == code # RELAUNCH_EXIT_CODE

\* --------------------------------------------------------------- the inputs

\* Values of GEMINI_CLI_NO_RELAUNCH at process start.
MarkerValues == {None, Some(""), Some("true"), Some("false")}

\* Values of process.argv[1].
ScriptPaths ==
    { None,
      Some(<<"/", "a", ".", "j", "s">>),
      Some(BunfsPrefix \o <<"r">>),
      Some(WinBunPrefix \o <<"r">>),
      Some(<<"/", "$", "b", "u", "n", "f", "s">>),
      Some(<<"x">> \o BunfsPrefix) }

\* additionalBunArgs, additionalScriptArgs and process.argv.slice(2); each
\* argument is named by one token.
BunArgChoices == {<< >>, <<"--smol">>}
ScriptArgChoices == {<< >>, <<"--resume">>}
UserArgChoices == {<< >>, <<"-p", "hi">>}

\* Exit statuses a child may close with; None is a close without a status.
CloseCodes == {None, Some(0), Some(1), Some(2), Some(RELAUNCH_EXIT_CODE)}

\* Errors a child process object may emit or spawn may throw.
ChildErrors == {"ENOENT", "EACCES"}

\* The negative errno a failed spawn reports as its 'close' code.
Errno(e) == IF e = "ENOENT" THEN -2 ELSE -13

\* typeof globalThis.Bun in the hosting runtime.
BunGlobalTypes == {"undefined", "object"}

\* Failures of import('bun-pty').
LoadErrors == {"ERR_MODULE_NOT_FOUND", "ERR_DLOPEN_FAILED"}

\* How many createPtyAdapter calls one run makes.
MaxAdapterCalls == 4

\* ---------------------------------------------------------------- the state

VARIABLES
    envMarker,      \* process.env['GEMINI_CLI_NO_RELAUNCH'] at start
    argv1,          \* process.argv[1]
    bunArgs,        \* additionalBunArgs
    scriptExtra,    \* additionalScriptArgs
    userArgs,       \* process.argv.slice(2)
    pc,             \* where the parent's flow of control is
    stdinPaused,    \* process.stdin is paused
    child,          \* the current child: "none", "alive", "failed", "ended"
    childCode,      \* the status the ended child closes with
    childEnv,       \* GEMINI_CLI_NO_RELAUNCH in the current child's env
    childArgs,      \* the current child's argument list
    childNested,    \* what the child's own relaunchAppInChildProcess did
    errorSeen,      \* the current child's 'error' listener has run
    closeSeen,      \* the current child's 'close' listener has run
    promise,        \* the runner's promise: none, pending, fulfilled, rejected
    promiseValue,   \* its value or reason
    exitCode,       \* option: the code process.exit was called with
    stderr,         \* what was written to the error stream
    runnerCalls,    \* history: invocations of runner
    returns,        \* history: the values runner returned to the loop
    spawns,         \* history: argument lists of the children spawned
    pauseCalls,     \* history: calls of process.stdin.pause
    resumeCalls,    \* history: calls of process.stdin.resume
    resumesThisRun, \* history: resume calls since the last runner started
    bunGlobal,      \* typeof globalThis.Bun
    bunPtySpawn,    \* the module-level cache of bun-pty's spawn
    adapterCalls,   \* the createPtyAdapter calls made, in order
    debugLog,       \* what debugLogger.debug has been given
    importCount     \* history: evaluations of import('bun-pty')

inputVars == <<envMarker, argv1, bunArgs, scriptExtra, userArgs>>
childVars == <<child, childCode, childEnv, childArgs, childNested,
               errorSeen, closeSeen>>
histVars == <<runnerCalls, returns, spawns, pauseCalls, resumeCalls,
              resumesThisRun>>
relaunchVars == <<inputVars, pc, stdinPaused, childVars, promise,
                  promiseValue, exitCode, stderr, histVars>>

\* The parent process at the call of relaunchAppInChildProcess.
RelaunchInit ==
    /\ envMarker \in MarkerValues
    /\ argv1 \in ScriptPaths
    /\ bunArgs \in BunArgChoices
    /\ scriptExtra \in ScriptArgChoices
    /\ userArgs \in UserArgChoices
    /\ pc = "start"
    /\ stdinPaused \in BOOLEAN
    /\ child = "none"
    /\ childCode = None
    /\ childEnv = None
    /\ childArgs = << >>
    /\ childNested = "none"
    /\ errorSeen = FALSE
    /\ closeSeen = FALSE
    /\ promise = "none"
    /\ promiseValue = None
    /\ exitCode = None
    /\ stderr = << >>
    /\ runnerCalls = 0
    /\ returns = << >>
    /\ spawns = << >>
    /\ pauseCalls = 0
    /\ resumeCalls = 0
    /\ resumesThisRun = 0

ptyVars == <<bunGlobal, bunPtySpawn, adapterCalls, debugLog, importCount>>

\* State of one adapter.spawn call and of the PtyInstance it returns
\* (esbuild.config.js:224-264).
VARIABLES
    spawnOptions,   \* the caller's options object, None before the call
    backendOpts,    \* the options object handed to bun-pty's spawn
    ptyState,       \* "none", "spawn-failed", "running", "ended", "exited"
    ptyPid,         \* pty.pid, what the pid getter returns
    spawnPid,       \* the pid the instance was created with
    winSize,        \* <<cols, rows>> of the pseudo-terminal
    produced,       \* chunks the child has written to the terminal
    delivered,      \* chunks fired as data events so far
    dataCbs,        \* registered data listeners, each with what it received
    exitCbs,        \* registered exit listeners, each with what it received
    exitEvent,      \* the child's end: [exitCode, signal], None while alive
    killCalls,      \* the signal argument of each kill() on the instance
    backendKills,   \* the signal argument of each pty.kill() on the backend
    writeCalls,     \* write() calls on the instance
    childInput,     \* writes that reached the child's input
    resizeCalls,    \* resize() calls on the instance
    raised          \* instance operations that ended in an exception

sessionVars ==
    <<spawnOptions, backendOpts, ptyState, ptyPid, spawnPid, winSize,
      produced, delivered, dataCbs, exitCbs, exitEvent, killCalls,
      backendKills, writeCalls, childInput, resizeCalls, raised>>

\* What isStdinTTY and isStdoutTTY read (ttyUtils.ts), and the calls made.
VARIABLES
    stdinFlag,      \* process.stdin.isTTY: "undefined", "true" or "false"
    stdoutFlag,     \* process.stdout.isTTY
    isatty,         \* tty.isatty per descriptor: "true", "false", "throws"
    ttyCalls        \* the calls so far: which query, and how it ended

ttyVars == <<stdinFlag, stdoutFlag, isatty, ttyCalls>>

\* One run of the generated launcher (build-wrapper.ts:93-220).
VARIABLES
    envPath,        \* process.env.GEMINI_BIN_PATH, an option
    osPlatform,     \* os.platform()
    osArch,         \* os.arch()
    libc,           \* what the musl probes find on this host
    installed,      \* platform packages with a binary, up the directory tree
    lpc,            \* "idle", "start", "detected", "exited"
    base,           \* the package name computed by platform detection
    lookups,        \* findBinary calls
    launched,       \* the target handed to spawnSync, an option
    spawnResult,    \* what spawnSync returned, an option
    launcherExit,   \* the launcher's exit code, an option
    launcherErr     \* lines written with console.error

launcherVars ==
    <<envPath, osPlatform, osArch, libc, installed, lpc, base, lookups,
      launched, spawnResult, launcherExit, launcherErr>>

vars == <<relaunchVars, ptyVars, sessionVars, ttyVars, launcherVars>>

\* The process before any createPtyAdapter call.
PtyInit ==
    /\ bunGlobal \in BunGlobalTypes
    /\ bunPtySpawn = None
    /\ adapterCalls = << >>
    /\ debugLog = << >>
    /\ importCount = 0

\* ------------------------------------------------------ stdin of the parent

\* Fault variant of StdinPause: the pause is left out.
StdinPauseSkipped ==
    /\ stdinPaused' = stdinPaused
    /\ pauseCalls' = pauseCalls

\* process.stdin.pause()
StdinPause ==
    /\ stdinPaused' = TRUE
    /\ pauseCalls' = pauseCalls + 1

\* process.stdin.resume()
StdinResume ==
    /\ stdinPaused' = FALSE
    /\ resumeCalls' = resumeCalls + 1
    /\ resumesThisRun' = resumesThisRun + 1
    /\ UNCHANGED pauseCalls

\* ------------------------------------------------ relaunchAppInChildProcess

\* relaunch.ts:106-122 and 152: the early returns, else into the loop.
EnterRelaunch ==
    /\ pc = "start"
    /\ UNCHANGED <<ptyVars, sessionVars, ttyVars, launcherVars>>
    /\ pc' = IF RelaunchIsSkipped(envMarker, argv1) THEN "returned" ELSE "loop"
    /\ UNCHANGED <<inputVars, stdinPaused, childVars, promise, promiseValue,
                   exitCode, stderr, histVars>>

\* relaunch.ts:89 and 124-135: runner is called; it builds the arguments and
\* the environment and pauses stdin.
RunnerPause ==
    /\ pc = "loop"
    /\ UNCHANGED <<ptyVars, sessionVars, ttyVars, launcherVars>>
    /\ runnerCalls' = runnerCalls + 1
    /\ StdinPause
    /\ resumesThisRun' = 0
    /\ pc' = "paused"
    /\ promise' = "none"
    /\ promiseValue' = None
    /\ UNCHANGED <<inputVars, childVars, exitCode, stderr, returns, spawns,
                   resumeCalls>>

\* relaunch.ts:137-149: spawn succeeds; the promise is created and the two
\* listeners are attached.
RunnerSpawn ==
    /\ pc = "paused"
    /\ UNCHANGED <<ptyVars, sessionVars, ttyVars, launcherVars>>
    /\ child' = "alive"
    /\ childCode' = None
    /\ childEnv' = NewEnvMarker(envMarker)
    /\ childArgs' = ChildArgs(bunArgs, argv1, scriptExtra, userArgs)
    /\ childNested' = "none"
    /\ errorSeen' = FALSE
    /\ closeSeen' = FALSE
    /\ spawns' = Append(spawns, childArgs')
    /\ promise' = "pending"
    /\ pc' = "awaiting"
    /\ UNCHANGED <<inputVars, stdinPaused, promiseValue, exitCode, stderr,
                   runnerCalls, returns, pauseCalls, resumeCalls,
                   resumesThisRun>>

\* relaunch.ts:137-149: spawn returns a child object whose process could not
\* be started; the runtime will emit 'error' on it (and may emit 'close').
RunnerSpawnFails ==
    /\ pc = "paused"
    /\ UNCHANGED <<ptyVars, sessionVars, ttyVars, launcherVars>>
    /\ \E e \in ChildErrors :
          /\ child' = "failed"
          /\ childCode' = Some(Errno(e))
    /\ childEnv' = NewEnvMarker(envMarker)
    /\ childArgs' = ChildArgs(bunArgs, argv1, scriptExtra, userArgs)
    /\ childNested' = "none"
    /\ errorSeen' = FALSE
    /\ closeSeen' = FALSE
    /\ spawns' = Append(spawns, childArgs')
    /\ promise' = "pending"
    /\ pc' = "awaiting"
    /\ UNCHANGED <<inputVars, stdinPaused, promiseValue, exitCode, stderr,
                   runnerCalls, returns, pauseCalls, resumeCalls,
                   resumesThisRun>>

\* relaunch.ts:137 and 89: spawn throws; runner throws out of `await runner()`
\* and control is in the catch block with that error.
RunnerSpawnThrows ==
    /\ pc = "paused"
    /\ UNCHANGED <<ptyVars, sessionVars, ttyVars, launcherVars>>
    /\ \E e \in ChildErrors : promiseValue' = Some(e)
    /\ promise' = "rejected"
    /\ child' = "none"
    /\ pc' = "awaiting"
    /\ UNCHANGED <<inputVars, stdinPaused, childCode, childEnv, childArgs,
                   childNested, errorSeen, closeSeen, exitCode, stderr,
                   histVars>>

\* ---------------------------------------------------------------- the child

\* The child runs the same program: its own relaunchAppInChildProcess
\* (relaunch.ts:106-122) decides from the child's environment.
ChildStartup ==
    /\ pc = "awaiting"
    /\ UNCHANGED <<ptyVars, sessionVars, ttyVars, launcherVars>>
    /\ child = "alive"
    /\ childNested = "none"
    /\ childNested' = IF RelaunchIsSkipped(childEnv, argv1)
                        THEN "skipped" ELSE "relaunched"
    /\ UNCHANGED <<inputVars, pc, stdinPaused, child, childCode, childEnv,
                   childArgs, errorSeen, closeSeen, promise, promiseValue,
                   exitCode, stderr, histVars>>

\* The child process ends, with a status or (killed by a signal) without.
ChildExit ==
    /\ pc = "awaiting"
    /\ UNCHANGED <<ptyVars, sessionVars, ttyVars, launcherVars>>
    /\ child = "alive"
    /\ \E c \in CloseCodes :
          /\ c = Some(RELAUNCH_EXIT_CODE) => runnerCalls <= MaxRestarts
          /\ childCode' = c
    /\ child' = "ended"
    /\ UNCHANGED <<inputVars, pc, stdinPaused, childEnv, childArgs,
                   childNested, errorSeen, closeSeen, promise, promiseValue,
                   exitCode, stderr, histVars>>

\* relaunch.ts:143: child.on('error', reject).  The runtime may emit 'error'
\* while the process is running, after it ended, or for a failed spawn;
\* 'close' is the last event of a child, no 'error' follows it.
OnError ==
    /\ pc = "awaiting"
    /\ UNCHANGED <<ptyVars, sessionVars, ttyVars, launcherVars>>
    /\ child # "none"
    /\ ~errorSeen
    /\ ~closeSeen
    /\ errorSeen' = TRUE
    /\ \E e \in ChildErrors :
          /\ child = "failed" => childCode = Some(Errno(e))
          /\ IF promise = "pending"
               THEN promise' = "rejected" /\ promiseValue' = Some(e)
               ELSE UNCHANGED <<promise, promiseValue>>
    /\ UNCHANGED <<inputVars, pc, stdinPaused, child, childCode, childEnv,
                   childArgs, childNested, closeSeen, exitCode, stderr,
                   histVars>>

\* Fault variant of OnClose: a close without a code is resolved as the
\* sentinel.
OnCloseNullRestarts ==
    /\ pc = "awaiting"
    /\ UNCHANGED <<ptyVars, sessionVars, ttyVars, launcherVars>>
    /\ ~closeSeen
    /\ child = "ended" \/ (child = "failed" /\ errorSeen)
    /\ closeSeen' = TRUE
    /\ StdinResume
    /\ IF promise = "pending"
         THEN /\ promise' = "fulfilled"
              /\ promiseValue' = Some(Coalesce(childCode, RELAUNCH_EXIT_CODE))
         ELSE UNCHANGED <<promise, promiseValue>>
    /\ UNCHANGED <<inputVars, pc, child, childCode, childEnv, childArgs,
                   childNested, errorSeen, exitCode, stderr, runnerCalls,
                   returns, spawns>>

\* relaunch.ts:144-148: the 'close' listener.
OnClose ==
    /\ pc = "awaiting"
    /\ UNCHANGED <<ptyVars, sessionVars, ttyVars, launcherVars>>
    /\ ~closeSeen
    /\ child = "ended" \/ (child = "failed" /\ errorSeen)
    /\ closeSeen' = TRUE
    /\ StdinResume
    /\ IF promise = "pending"
         THEN /\ promise' = "fulfilled"
              /\ promiseValue' = Some(Coalesce(childCode, DefaultCloseCode))
         ELSE UNCHANGED <<promise, promiseValue>>
    /\ UNCHANGED <<inputVars, pc, child, childCode, childEnv, childArgs,
                   childNested, errorSeen, exitCode, stderr, runnerCalls,
                   returns, spawns>>

\* ------------------------------------------------------- relaunchOnExitCode

\* Fault variant of LoopReturn: on the sentinel the loop is left and
\* relaunchOnExitCode returns to its caller.
LoopReturnBreaks ==
    /\ pc = "awaiting"
    /\ UNCHANGED <<ptyVars, sessionVars, ttyVars, launcherVars>>
    /\ promise = "fulfilled"
    /\ returns' = Append(returns, promiseValue[1])
    /\ IF IsTerminalCode(promiseValue[1])
         THEN pc' = "exited" /\ exitCode' = promiseValue
         ELSE pc' = "returned" /\ UNCHANGED exitCode
    /\ UNCHANGED <<inputVars, stdinPaused, childVars, promise, promiseValue,
                   stderr, runnerCalls, spawns, pauseCalls, resumeCalls,
                   resumesThisRun>>

\* relaunch.ts:89-93: the awaited runner returned a code.
LoopReturn ==
    /\ pc = "awaiting"
    /\ UNCHANGED <<ptyVars, sessionVars, ttyVars, launcherVars>>
    /\ promise = "fulfilled"
    /\ returns' = Append(returns, promiseValue[1])
    /\ IF IsTerminalCode(promiseValue[1])
         THEN pc' = "exited" /\ exitCode' = promiseValue
         ELSE pc' = "loop" /\ UNCHANGED exitCode
    /\ UNCHANGED <<inputVars, stdinPaused, childVars, promise, promiseValue,
                   stderr, runnerCalls, spawns, pauseCalls, resumeCalls,
                   resumesThisRun>>

\* Fault variant of LoopCatch: the error is reported but the process does not
\* exit, so the while loop runs the runner again.
LoopCatchRetry ==
    /\ pc = "awaiting"
    /\ UNCHANGED <<ptyVars, sessionVars, ttyVars, launcherVars>>
    /\ promise = "rejected"
    /\ StdinResume
    /\ stderr' = Append(stderr,
                        [text |-> "Fatal error: Failed to relaunch the CLI process.",
                         cause |-> promiseValue[1]])
    /\ pc' = "loop"
    /\ UNCHANGED <<inputVars, childVars, promise, promiseValue, exitCode,
                   runnerCalls, returns, spawns>>

\* Fault variant of LoopCatch: stdin is not resumed before the exit.
LoopCatchNoResume ==
    /\ pc = "awaiting"
    /\ UNCHANGED <<ptyVars, sessionVars, ttyVars, launcherVars>>
    /\ promise = "rejected"
    /\ stderr' = Append(stderr,
                        [text |-> "Fatal error: Failed to relaunch the CLI process.",
                         cause |-> promiseValue[1]])
    /\ exitCode' = Some(FailureExitCode)
    /\ pc' = "exited"
    /\ UNCHANGED <<inputVars, stdinPaused, childVars, promise, promiseValue,
                   histVars>>

\* relaunch.ts:94-102: the catch block.
LoopCatch ==
    /\ pc = "awaiting"
    /\ UNCHANGED <<ptyVars, sessionVars, ttyVars, launcherVars>>
    /\ promise = "rejected"
    /\ StdinResume
    /\ stderr' = Append(stderr,
                        [text |-> "Fatal error: Failed to relaunch the CLI process.",
                         cause |-> promiseValue[1]])
    /\ exitCode' = Some(FailureExitCode)
    /\ pc' = "exited"
    /\ UNCHANGED <<inputVars, childVars, promise, promiseValue, runnerCalls,
                   returns, spawns>>

Next ==
    \/ EnterRelaunch
    \/ RunnerPause
    \/ RunnerSpawn
    \/ RunnerSpawnFails
    \/ RunnerSpawnThrows
    \/ ChildStartup
    \/ ChildExit
    \/ OnError
    \/ OnClose
    \/ LoopReturn
    \/ LoopCatch

\* --------------------------------------------------------- createPtyAdapter

\* Fault variant of IsBunRuntime: the runtime check is left out.
IsBunRuntimeUnchecked(g) == TRUE

\* esbuild.config.js:280: typeof globalThis.Bun !== 'undefined'
IsBunRuntime(g) == g # "undefined"

\* esbuild.config.js:222-266: the adapter object; its tag is 'bun-pty'.
\* Fault variant of BunPtyAdapter: the adapter names a backend outside the
\* known ones.
BunPtyAdapterNodePty(spawnFn) == [backend |-> "node-pty", spawn |-> spawnFn]

\* The spawn function it closes over is the cache's value (line 220).
BunPtyAdapter(spawnFn) == [backend |-> "bun-pty", spawn |-> spawnFn]

\* Fault variant of CreatePtyAdapter: the cache is not consulted, every call
\* inside Bun imports the backend again.
CreatePtyAdapterNoCache ==
    /\ Len(adapterCalls) < MaxAdapterCalls
    /\ IF ~IsBunRuntime(bunGlobal)
         THEN /\ adapterCalls' =
                    Append(adapterCalls, [st |-> "done", result |-> None])
              /\ UNCHANGED importCount
         ELSE /\ adapterCalls' =
                    Append(adapterCalls, [st |-> "importing", result |-> None])
              /\ importCount' = importCount + 1
    /\ UNCHANGED <<bunGlobal, bunPtySpawn, debugLog>>
    /\ UNCHANGED <<relaunchVars, sessionVars, ttyVars, launcherVars>>

\* esbuild.config.js:277-288 and 214-222: a call runs up to its first
\* suspension: it returns null outside Bun, starts the import when the cache
\* is empty, and otherwise returns an adapter over the cached spawn.
CreatePtyAdapter ==
    /\ Len(adapterCalls) < MaxAdapterCalls
    /\ IF ~IsBunRuntime(bunGlobal)
         THEN /\ adapterCalls' =
                    Append(adapterCalls, [st |-> "done", result |-> None])
              /\ UNCHANGED importCount
         ELSE IF bunPtySpawn = None
         THEN /\ adapterCalls' =
                    Append(adapterCalls, [st |-> "importing", result |-> None])
              /\ importCount' = importCount + 1
         ELSE /\ adapterCalls' =
                    Append(adapterCalls,
                           [st |-> "done",
                            result |-> Some(BunPtyAdapter(bunPtySpawn[1]))])
              /\ UNCHANGED importCount
    /\ UNCHANGED <<bunGlobal, bunPtySpawn, debugLog>>
    /\ UNCHANGED <<relaunchVars, sessionVars, ttyVars, launcherVars>>

\* esbuild.config.js:216-222: the import resolved; the cache is filled and
\* the adapter returned.
ImportResolves ==
    \E i \in 1..Len(adapterCalls) :
        /\ adapterCalls[i].st = "importing"
        /\ bunPtySpawn' = Some("bun-pty.spawn")
        /\ adapterCalls' =
              [adapterCalls EXCEPT ![i] =
                  [st |-> "done",
                   result |-> Some(BunPtyAdapter(bunPtySpawn'[1]))]]
        /\ UNCHANGED <<bunGlobal, debugLog, importCount>>
        /\ UNCHANGED <<relaunchVars, sessionVars, ttyVars, launcherVars>>

\* Fault variant of ImportRejects: the failure is not caught and leaves
\* createPtyAdapter as a rejection.
ImportRejectsThrows ==
    \E i \in 1..Len(adapterCalls), e \in LoadErrors :
        /\ adapterCalls[i].st = "importing"
        /\ adapterCalls' =
              [adapterCalls EXCEPT ![i] = [st |-> "threw", result |-> None]]
        /\ UNCHANGED <<bunGlobal, bunPtySpawn, debugLog, importCount>>
        /\ UNCHANGED <<relaunchVars, sessionVars, ttyVars, launcherVars>>

\* esbuild.config.js:289-293: the import failed; the catch block logs the
\* failure and returns null.
ImportRejects ==
    \E i \in 1..Len(adapterCalls), e \in LoadErrors :
        /\ adapterCalls[i].st = "importing"
        /\ debugLog' = Append(debugLog,
                              [text |-> "Failed to create bun-pty adapter:",
                               cause |-> e])
        /\ adapterCalls' =
              [adapterCalls EXCEPT ![i] = [st |-> "done", result |-> None]]
        /\ UNCHANGED <<bunGlobal, bunPtySpawn, importCount>>
        /\ UNCHANGED <<relaunchVars, sessionVars, ttyVars, launcherVars>>

PtyNext ==
    \/ CreatePtyAdapter
    \/ ImportResolves
    \/ ImportRejects

\* ----------------------------------------------------------- specifications

\* The PTY side at rest, for the runs of the relaunch supervisor.
PtyParked ==
    /\ bunGlobal = "undefined"
    /\ bunPtySpawn = None
    /\ adapterCalls = << >>
    /\ debugLog = << >>
    /\ importCount = 0

\* The relaunch supervisor at rest, for the runs of the PTY side.
\* No spawn has been asked of any adapter.
SessionParked ==
    /\ spawnOptions = None
    /\ backendOpts = None
    /\ ptyState = "none"
    /\ ptyPid = 0
    /\ spawnPid = 0
    /\ winSize = <<0, 0>>
    /\ produced = 0
    /\ delivered = 0
    /\ dataCbs = << >>
    /\ exitCbs = << >>
    /\ exitEvent = None
    /\ killCalls = << >>
    /\ backendKills = << >>
    /\ writeCalls = 0
    /\ childInput = 0
    /\ resizeCalls = 0
    /\ raised = 0

\* Neither TTY query has been called.
TtyParked ==
    /\ stdinFlag = "undefined"
    /\ stdoutFlag = "undefined"
    /\ isatty = [fd \in {0, 1} |-> "false"]
    /\ ttyCalls = << >>

\* The launcher is not running.
LauncherParked ==
    /\ envPath = None
    /\ osPlatform = "linux"
    /\ osArch = "x64"
    /\ libc = "glibc"
    /\ installed = {}
    /\ lpc = "idle"
    /\ base = None
    /\ lookups = 0
    /\ launched = None
    /\ spawnResult = None
    /\ launcherExit = None
    /\ launcherErr = << >>

RelaunchParked ==
    /\ envMarker = None
    /\ argv1 = None
    /\ bunArgs = << >>
    /\ scriptExtra = << >>
    /\ userArgs = << >>
    /\ pc = "start"
    /\ stdinPaused = FALSE
    /\ child = "none"
    /\ childCode = None
    /\ childEnv = None
    /\ childArgs = << >>
    /\ childNested = "none"
    /\ errorSeen = FALSE
    /\ closeSeen = FALSE
    /\ promise = "none"
    /\ promiseValue = None
    /\ exitCode = None
    /\ stderr = << >>
    /\ runnerCalls = 0
    /\ returns = << >>
    /\ spawns = << >>
    /\ pauseCalls = 0
    /\ resumeCalls = 0
    /\ resumesThisRun = 0

Init ==
    RelaunchInit /\ PtyParked /\ SessionParked /\ TtyParked /\ LauncherParked

\* The relaunch supervisor.
Spec == Init /\ [][Next]_vars

\* The supervisor under a runtime that runs every ready continuation and
\* delivers the events of a child, and a child that ends.
FairSpec ==
    /\ Spec
    /\ WF_vars(EnterRelaunch)
    /\ WF_vars(RunnerPause)
    /\ WF_vars(RunnerSpawn \/ RunnerSpawnFails \/ RunnerSpawnThrows)
    /\ WF_vars(ChildExit)
    /\ WF_vars(OnError)
    /\ WF_vars(OnClose)
    /\ WF_vars(LoopReturn)
    /\ WF_vars(LoopCatch)

PtySpecInit ==
    PtyInit /\ RelaunchParked /\ SessionParked /\ TtyParked /\ LauncherParked

\* The PTY backend selector.
PtySpec == PtySpecInit /\ [][PtyNext]_vars

\* ---------------------------------------------------------------- properties

\* Number of sentinel codes in a sequence of returned codes.
SentinelCount(s) ==
    Cardinality({i \in 1..Len(s) : s[i] = RELAUNCH_EXIT_CODE})

\* The process has ended through process.exit on a returned code.
ExitedOnCode == pc = "exited" /\ promise = "fulfilled"

\* The process has ended through the catch block.
ExitedOnFault == pc = "exited" /\ promise = "rejected"

\* A runner invocation is over: the loop has taken its result.
RunOver == pc = "exited" \/ (pc = "loop" /\ runnerCalls > 0)

\* argv[1] names a compiled binary, spelled out from the two prefixes.
CompiledPath ==
    /\ argv1 # None
    /\ Len(argv1[1]) >= 8
    /\ \/ SubSeq(argv1[1], 1, 8) = <<"/", "$", "b", "u", "n", "f", "s", "/">>
       \/ SubSeq(argv1[1], 1, 8) = <<"B", ":", "/", "~", "B", "U", "N", "/">>

\* relaunchAppInChildProcess has left no trace: no child, no pause, no
\* resume, no exit, nothing reported.
Inert ==
    /\ pc \in {"start", "returned"}
    /\ spawns = << >>
    /\ child = "none"
    /\ runnerCalls = 0
    /\ pauseCalls = 0
    /\ resumeCalls = 0
    /\ exitCode = None
    /\ stderr = << >>

\* C1: when the runner returns the sentinel exactly K times and then a code
\* C other than the sentinel, the runner has been invoked exactly K+1 times
\* (K restarts), the sentinels are the first K returns, and the process
\* exits with C.
C1_RestartCount ==
    ExitedOnCode =>
        LET K == SentinelCount(returns) IN
        /\ Len(returns) = K + 1
        /\ runnerCalls = K + 1
        /\ \A i \in 1..K : returns[i] = RELAUNCH_EXIT_CODE
        /\ returns[K + 1] # RELAUNCH_EXIT_CODE
        /\ exitCode = Some(returns[K + 1])

C1_Witness ==
    /\ ExitedOnCode
    /\ SentinelCount(returns) = 2
    /\ exitCode = Some(0)

\* C2 as claimed: when a runner invocation that spawned a child is over,
\* stdin has been resumed exactly once since that child was spawned.
C2_ResumedExactlyOnce ==
    (RunOver /\ child # "none") => resumesThisRun = 1

\* C2 amended: per runner invocation stdin is resumed once by the 'close'
\* listener if a 'close' was handled and once more by the catch block if the
\* runner failed: once after a close only or an error only, twice when the
\* 'error' was handled and then the 'close', and never more than twice.
C2_ResumedOncePerListenerAndCatch ==
    /\ resumesThisRun <= 2
    /\ RunOver =>
          /\ resumesThisRun >= 1
          /\ resumesThisRun =
                (IF closeSeen /\ child # "none" THEN 1 ELSE 0)
                + (IF promise = "rejected" THEN 1 ELSE 0)

C2_Witness ==
    /\ pc = "exited"
    /\ errorSeen /\ closeSeen
    /\ resumesThisRun = 2

\* C3 as claimed: every step in which the parent resumes stdin is taken with
\* the spawned child fully closed, never with the child alive.
C3_ResumeOnlyAfterClose ==
    [][resumeCalls' > resumeCalls =>
          /\ child # "alive"
          /\ child # "none" => closeSeen']_vars

\* C4: stdin is paused when spawn is called (once per runner invocation), and
\* whenever a child is alive and the catch block has not handled an error.
C4_PausedBeforeSpawn ==
    /\ pc = "paused" => stdinPaused /\ pauseCalls = runnerCalls
    /\ (child = "alive" /\ ~ExitedOnFault) => stdinPaused

C4_Witness ==
    /\ child = "alive"
    /\ ~errorSeen
    /\ runnerCalls = 2
    /\ stdinPaused

\* C5: the process exits either with the code the runner returned, which is
\* not the sentinel and is the child's own close status when it has one, or
\* with the failure code 1 after a fault.
C5_ExitCodeVerbatim ==
    /\ ExitedOnCode =>
          /\ exitCode = promiseValue
          /\ exitCode # Some(RELAUNCH_EXIT_CODE)
          /\ childCode # None => exitCode = childCode
    /\ ExitedOnFault => exitCode = Some(1)
    /\ pc = "exited" => ExitedOnCode \/ ExitedOnFault

C5_Witness ==
    /\ ExitedOnCode
    /\ childCode = Some(0)
    /\ exitCode = Some(0)
    /\ runnerCalls = 2

\* C6: once the runner has failed and the loop has taken the failure, the
\* message and the cause are on the error stream, the process has exited
\* with 1, and the failing invocation was the last one.
C6_FaultIsFatal ==
    /\ (promise = "rejected" /\ pc # "awaiting") =>
          /\ pc = "exited"
          /\ exitCode = Some(1)
          /\ stderr = <<[text |-> "Fatal error: Failed to relaunch the CLI process.",
                         cause |-> promiseValue[1]]>>
          /\ runnerCalls = Len(returns) + 1
    /\ stderr # << >> => pc = "exited" /\ promise = "rejected"

C6_Witness ==
    /\ ExitedOnFault
    /\ runnerCalls = 2
    /\ stderr # << >>
    /\ stderr[1].cause = "EACCES"

\* C7: every spawned child carries GEMINI_CLI_NO_RELAUNCH = 'true', a child
\* never relaunches in turn, and a parent started with that value spawns
\* nothing: the chain is at most parent -> child.
C7_NoNestedRelaunch ==
    /\ child # "none" => childEnv = Some("true")
    /\ childNested # "relaunched"
    /\ envMarker = Some("true") => spawns = << >>

C7_Witness ==
    /\ childNested = "skipped"
    /\ runnerCalls = 2

\* C8 as claimed: with GEMINI_CLI_NO_RELAUNCH present in the environment,
\* relaunchAppInChildProcess is inert.
C8_PresentMarkerIsInert ==
    envMarker # None => Inert

\* C8 amended: with GEMINI_CLI_NO_RELAUNCH set to a non-empty string,
\* relaunchAppInChildProcess is inert.
C8_NonEmptyMarkerIsInert ==
    (envMarker # None /\ envMarker[1] # "") => Inert

C8_Witness ==
    /\ envMarker = Some("false")
    /\ ~CompiledPath
    /\ pc = "returned"

NullCalls ==
    {i \in 1..Len(adapterCalls) :
        adapterCalls[i].st = "done" /\ adapterCalls[i].result = None}

\* C11: inside Bun, a failed load of the backend is caught: the call ends
\* with null, never as a raised failure, and each such call left one debug
\* entry carrying the failure.
C11_LoadFailureIsNull ==
    /\ \A i \in 1..Len(adapterCalls) :
          adapterCalls[i].st \in {"importing", "done"}
    /\ bunGlobal = "object" =>
          /\ Len(debugLog) = Cardinality(NullCalls)
          /\ \A j \in 1..Len(debugLog) :
                /\ debugLog[j].text = "Failed to create bun-pty adapter:"
                /\ debugLog[j].cause \in
                      {"ERR_MODULE_NOT_FOUND", "ERR_DLOPEN_FAILED"}

C11_Witness ==
    /\ bunGlobal = "object"
    /\ Len(adapterCalls) = 2
    /\ adapterCalls[1] = [st |-> "done", result |-> None]
    /\ adapterCalls[2].result # None
    /\ Len(debugLog) = 1
    /\ debugLog[1].cause = "ERR_DLOPEN_FAILED"

\* C12: once the cache holds the backend's spawn, no call imports the
\* backend again and the cache keeps its value; every adapter handed out
\* closes over that one cached spawn function.
C12_SpawnIsMemoized ==
    /\ [][bunPtySpawn # None =>
             importCount' = importCount /\ bunPtySpawn' = bunPtySpawn]_vars
    /\ [](\A i \in 1..Len(adapterCalls) :
             adapterCalls[i].result # None =>
                /\ bunPtySpawn # None
                /\ adapterCalls[i].result[1].spawn = bunPtySpawn[1])

C12_Witness ==
    /\ Len(adapterCalls) = 3
    /\ importCount = 1
    /\ \A i \in 1..3 : adapterCalls[i].result # None

\* ------------------------------------------------------------------------
\* adapter.spawn (esbuild.config.js:224-264)
\* ------------------------------------------------------------------------

\* esbuild.config.js:236-238: the defaults applied with ??.
DefaultName == "xterm-256color"
DefaultCols == 80
DefaultRows == 24

\* Values an entry of options.env can hold at run time; the declared type is
\* Record<string, string>, the sanitizing loop exists for the others.
JsUndefined == [t |-> "undefined", v |-> "", n |-> 0]
JsNull == [t |-> "null", v |-> "", n |-> 0]
JsStr(str) == [t |-> "string", v |-> str, n |-> 0]
JsNum(num) == [t |-> "number", v |-> "", n |-> num]

\* JavaScript's String(value).
JsString(x) ==
    CASE x.t = "string" -> x.v
      [] x.t = "number" -> ToString(x.n)
      [] x.t = "null" -> "null"
      [] x.t = "undefined" -> "undefined"

EnvKeys == {"PATH", "PORT"}
EnvValues == {JsUndefined, JsNull, JsStr(""), JsStr("/bin"), JsNum(0)}
EnvEntries == [k : EnvKeys, v : EnvValues]

\* An object is the sequence of its own entries in insertion order
\* (Object.entries); a key occurs once.
EnvObjects ==
    {<< >>} \cup {<<e>> : e \in EnvEntries}
            \cup {<<p[1], p[2]>> :
                     p \in {q \in EnvEntries \X EnvEntries : q[1].k # q[2].k}}

EnvChoices == {None} \cup {Some(o) : o \in EnvObjects}

\* The options objects callers pass to spawn.
SpawnOptionChoices ==
    [name : {None, Some("vt100")},
     cols : {None, Some(120)},
     rows : {None, Some(40)},
     cwd : {None, Some("/tmp")},
     env : EnvChoices,
     handleFlowControl : {None, Some(TRUE), Some(FALSE)}]

\* The process id the operating system gives the child.
Pids == {4242}

\* obj[key] = value  on an object kept as a sequence of entries.
ObjectPut(obj, key, value) ==
    IF \E i \in 1..Len(obj) : obj[i].k = key
      THEN [i \in 1..Len(obj) |->
              IF obj[i].k = key THEN [k |-> key, v |-> value] ELSE obj[i]]
      ELSE Append(obj, [k |-> key, v |-> value])

\* esbuild.config.js:228-232: the loop over Object.entries(options.env);
\* entries whose value has a tag in `dropped` are skipped.
RECURSIVE CleanEnvFrom(_, _, _)
CleanEnvFrom(entries, acc, dropped) ==
    IF entries = << >>
      THEN acc
      ELSE LET e == Head(entries)
           IN  CleanEnvFrom(Tail(entries),
                            IF e.v.t \notin dropped
                              THEN ObjectPut(acc, e.k, JsString(e.v))
                              ELSE acc,
                            dropped)

\* Fault variant of CleanEnv: only undefined is filtered, a null value is
\* coerced and handed on.
CleanEnvKeepsNull(env) ==
    IF env = None THEN << >> ELSE CleanEnvFrom(env[1], << >>, {"undefined"})

\* esbuild.config.js:226-233: cleanEnv.
CleanEnv(env) ==
    IF env = None
      THEN << >>
      ELSE CleanEnvFrom(env[1], << >>, {"undefined", "null"})

\* esbuild.config.js:235-241: the object literal handed to bun-pty's spawn.
BackendOptions(options) ==
    [name |-> Coalesce(options.name, DefaultName),
     cols |-> Coalesce(options.cols, DefaultCols),
     rows |-> Coalesce(options.rows, DefaultRows),
     cwd |-> options.cwd,
     env |-> CleanEnv(options.env)]

\* createPtyAdapter has handed out an adapter.
AdapterReady ==
    /\ bunGlobal = "object"
    /\ bunPtySpawn = Some("bun-pty.spawn")
    /\ adapterCalls =
          <<[st |-> "done", result |-> Some(BunPtyAdapter("bun-pty.spawn"))]>>
    /\ debugLog = << >>
    /\ importCount = 1

\* esbuild.config.js:224-264: adapter.spawn returns a PtyInstance over the
\* pty the backend created.
AdapterSpawn ==
    /\ ptyState = "none"
    /\ \E i \in 1..Len(adapterCalls) : adapterCalls[i].result # None
    /\ \E options \in SpawnOptionChoices, pid \in Pids :
          /\ spawnOptions' = Some(options)
          /\ backendOpts' = Some(BackendOptions(options))
          /\ ptyState' = "running"
          /\ ptyPid' = pid
          /\ spawnPid' = pid
          /\ winSize' = <<BackendOptions(options).cols,
                          BackendOptions(options).rows>>
    /\ UNCHANGED <<produced, delivered, dataCbs, exitCbs, exitEvent,
                   killCalls, backendKills, writeCalls, childInput,
                   resizeCalls, raised>>
    /\ UNCHANGED <<relaunchVars, ptyVars, ttyVars, launcherVars>>

\* esbuild.config.js:235-241: the backend's spawn throws (no pty device, no
\* such command); nothing catches it, the caller of adapter.spawn gets it.
AdapterSpawnThrows ==
    /\ ptyState = "none"
    /\ \E i \in 1..Len(adapterCalls) : adapterCalls[i].result # None
    /\ \E options \in SpawnOptionChoices :
          /\ spawnOptions' = Some(options)
          /\ backendOpts' = Some(BackendOptions(options))
    /\ ptyState' = "spawn-failed"
    /\ UNCHANGED <<ptyPid, spawnPid, winSize, produced, delivered, dataCbs,
                   exitCbs, exitEvent, killCalls, backendKills, writeCalls,
                   childInput, resizeCalls, raised>>
    /\ UNCHANGED <<relaunchVars, ptyVars, ttyVars, launcherVars>>

SpawnNext ==
    \/ AdapterSpawn
    \/ AdapterSpawnThrows

SpawnInit ==
    /\ AdapterReady /\ RelaunchParked /\ SessionParked
    /\ TtyParked /\ LauncherParked

\* One adapter.spawn call on a created adapter.
SpawnSpec == SpawnInit /\ [][SpawnNext]_vars

\* The entries of the caller's env object, none when env is absent.
GivenEnv == IF spawnOptions[1].env = None THEN << >> ELSE spawnOptions[1].env[1]

\* The text an env value is expected to become.
ExpectedText(x) ==
    IF x = JsStr("") THEN ""
    ELSE IF x = JsStr("/bin") THEN "/bin"
    ELSE IF x = JsNum(0) THEN "0"
    ELSE "<dropped>"

\* C13: the env handed to the backend holds strings only and no key twice;
\* an entry of options.env that is undefined or null is absent from it, every
\* other entry is there under its own key as the value's text, nothing else
\* is there, and an absent options.env gives the empty mapping.
C13_EnvIsSanitized ==
    backendOpts # None =>
        LET env == backendOpts[1].env
        IN  /\ \A i \in 1..Len(env) : env[i].v \in {"", "/bin", "0"}
            /\ \A i, j \in 1..Len(env) : i # j => env[i].k # env[j].k
            /\ \A i \in 1..Len(GivenEnv) :
                  IF GivenEnv[i].v \in {JsUndefined, JsNull}
                    THEN \A j \in 1..Len(env) : env[j].k # GivenEnv[i].k
                    ELSE \E j \in 1..Len(env) :
                            /\ env[j].k = GivenEnv[i].k
                            /\ env[j].v = ExpectedText(GivenEnv[i].v)
            /\ \A j \in 1..Len(env) :
                  \E i \in 1..Len(GivenEnv) : GivenEnv[i].k = env[j].k
            /\ spawnOptions[1].env = None => env = << >>

C13_Witness ==
    /\ ptyState = "running"
    /\ spawnOptions[1].env =
          Some(<<[k |-> "PATH", v |-> JsNull], [k |-> "PORT", v |-> JsNum(0)]>>)
    /\ backendOpts[1].env = <<[k |-> "PORT", v |-> "0"]>>

\* C19: a handleFlowControl flag given to spawn is part of what the backend
\* is handed, so the backend can honour XON/XOFF for the session.
C19_FlowControlReachesBackend ==
    (backendOpts # None /\ spawnOptions[1].handleFlowControl # None) =>
        /\ "handleFlowControl" \in DOMAIN backendOpts[1]
        /\ backendOpts[1].handleFlowControl = spawnOptions[1].handleFlowControl[1]

\* ------------------------------------------------------------------------
\* The PtyInstance returned by adapter.spawn (esbuild.config.js:243-264)
\* over the bun-pty terminal it wraps.
\* ------------------------------------------------------------------------

\* Caller operations on one instance, and chunks its child writes.
MaxOps == 4
MaxChunks == 2

\* The callbacks a caller registers.
DataCallbacks == {"onOutput", "onLog"}
ExitCallbacks == {"onDone", "onClosed"}

\* Signals a caller passes to kill: none, or a forced kill.
KillSignals == {None, Some("SIGKILL")}

\* Statuses a child ends with.
ExitCodes == {0, 1}

\* The size the tests resize to (part_000:67).
ResizeTo == <<120, 40>>

\* spawn was called with an options object that sets nothing.
EmptyOptions ==
    [name |-> None, cols |-> None, rows |-> None, cwd |-> None,
     env |-> None, handleFlowControl |-> None]

OpCount ==
    Len(dataCbs) + Len(exitCbs) + writeCalls + resizeCalls + Len(killCalls)

\* bun-pty: a listener is added to the terminal's list for the event.
BackendAddListener(listeners, l) == Append(listeners, l)

\* bun-pty: a data event calls every listener with the chunk.
BackendFireData(listeners, chunk) ==
    [i \in 1..Len(listeners) |->
        [listeners[i] EXCEPT !.log = Append(@, chunk)]]

\* bun-pty: kill without a signal asks for graceful termination.
BackendKillSignal(signal) == Coalesce(signal, "SIGTERM")

\* bun-pty: a write reaches the input of a live child and is absorbed once
\* the child is gone.
BackendWrite(state, input) == IF state = "running" THEN input + 1 ELSE input

\* bun-pty: a resize sets the window size of a live child's terminal and has
\* no effect once the child is gone.
BackendResize(state, size, to) == IF state = "running" THEN to ELSE size

\* Fault variant of WrapExit: the listener calls the callback twice.
WrapExitTwice(l, e) ==
    [l EXCEPT !.events = @ \o <<[exitCode |-> e.exitCode],
                                [exitCode |-> e.exitCode]>>]

\* esbuild.config.js:251-253: the listener given to pty.onExit calls the
\* caller's callback with the exit code alone.
WrapExit(l, e) == [l EXCEPT !.events = Append(@, [exitCode |-> e.exitCode])]

\* Fault variant of InstanceOnData: the instance keeps one callback, a new
\* registration takes the place of the one before.
InstanceOnDataLastWins ==
    /\ ptyState \in {"running", "ended", "exited"}
    /\ OpCount < MaxOps
    /\ \E cb \in DataCallbacks \ {dataCbs[i].cb : i \in 1..Len(dataCbs)} :
          dataCbs' = <<[cb |-> cb, from |-> delivered, log |-> << >>]>>
    /\ UNCHANGED <<spawnOptions, backendOpts, ptyState, ptyPid, spawnPid,
                   winSize, produced, delivered, exitCbs, exitEvent,
                   killCalls, backendKills, writeCalls, childInput,
                   resizeCalls, raised>>
    /\ UNCHANGED <<relaunchVars, ptyVars, ttyVars, launcherVars>>

\* esbuild.config.js:247-249: onData hands the callback to pty.onData.
InstanceOnData ==
    /\ ptyState \in {"running", "ended", "exited"}
    /\ OpCount < MaxOps
    /\ \E cb \in DataCallbacks \ {dataCbs[i].cb : i \in 1..Len(dataCbs)} :
          dataCbs' = BackendAddListener(dataCbs,
                        [cb |-> cb, from |-> delivered, log |-> << >>])
    /\ UNCHANGED <<spawnOptions, backendOpts, ptyState, ptyPid, spawnPid,
                   winSize, produced, delivered, exitCbs, exitEvent,
                   killCalls, backendKills, writeCalls, childInput,
                   resizeCalls, raised>>
    /\ UNCHANGED <<relaunchVars, ptyVars, ttyVars, launcherVars>>

\* esbuild.config.js:250-254: onExit hands pty.onExit a listener around the
\* callback.  `late` and `afterKill` record when the registration happened.
InstanceOnExit ==
    /\ ptyState \in {"running", "ended", "exited"}
    /\ OpCount < MaxOps
    /\ \E cb \in ExitCallbacks \ {exitCbs[i].cb : i \in 1..Len(exitCbs)} :
          exitCbs' = BackendAddListener(exitCbs,
                        [cb |-> cb,
                         late |-> (ptyState = "exited"),
                         afterKill |-> (killCalls # << >>),
                         events |-> << >>])
    /\ UNCHANGED <<spawnOptions, backendOpts, ptyState, ptyPid, spawnPid,
                   winSize, produced, delivered, dataCbs, exitEvent,
                   killCalls, backendKills, writeCalls, childInput,
                   resizeCalls, raised>>
    /\ UNCHANGED <<relaunchVars, ptyVars, ttyVars, launcherVars>>

\* Fault variant of InstanceWrite: writing to a terminal whose child is gone
\* throws.
InstanceWriteThrowsAfterExit ==
    /\ ptyState \in {"running", "ended", "exited"}
    /\ OpCount < MaxOps
    /\ writeCalls' = writeCalls + 1
    /\ IF ptyState = "running"
         THEN childInput' = childInput + 1 /\ UNCHANGED raised
         ELSE raised' = raised + 1 /\ UNCHANGED childInput
    /\ UNCHANGED <<spawnOptions, backendOpts, ptyState, ptyPid, spawnPid,
                   winSize, produced, delivered, dataCbs, exitCbs, exitEvent,
                   killCalls, backendKills, resizeCalls>>
    /\ UNCHANGED <<relaunchVars, ptyVars, ttyVars, launcherVars>>

\* esbuild.config.js:255-257: write forwards to pty.write.
InstanceWrite ==
    /\ ptyState \in {"running", "ended", "exited"}
    /\ OpCount < MaxOps
    /\ writeCalls' = writeCalls + 1
    /\ childInput' = BackendWrite(ptyState, childInput)
    /\ UNCHANGED <<spawnOptions, backendOpts, ptyState, ptyPid, spawnPid,
                   winSize, produced, delivered, dataCbs, exitCbs, exitEvent,
                   killCalls, backendKills, resizeCalls, raised>>
    /\ UNCHANGED <<relaunchVars, ptyVars, ttyVars, launcherVars>>

\* Fault variant of InstanceResize: the resize replaces the terminal, the
\* instance reports another pid from then on.
InstanceResizeRespawns ==
    /\ ptyState \in {"running", "ended", "exited"}
    /\ OpCount < MaxOps
    /\ resizeCalls' = resizeCalls + 1
    /\ winSize' = BackendResize(ptyState, winSize, ResizeTo)
    /\ ptyPid' = IF ptyState = "running" THEN ptyPid + 1 ELSE ptyPid
    /\ UNCHANGED <<spawnOptions, backendOpts, ptyState, spawnPid,
                   produced, delivered, dataCbs, exitCbs, exitEvent,
                   killCalls, backendKills, writeCalls, childInput, raised>>
    /\ UNCHANGED <<relaunchVars, ptyVars, ttyVars, launcherVars>>

\* esbuild.config.js:261-263: resize forwards to pty.resize.
InstanceResize ==
    /\ ptyState \in {"running", "ended", "exited"}
    /\ OpCount < MaxOps
    /\ resizeCalls' = resizeCalls + 1
    /\ winSize' = BackendResize(ptyState, winSize, ResizeTo)
    /\ UNCHANGED <<spawnOptions, backendOpts, ptyState, ptyPid, spawnPid,
                   produced, delivered, dataCbs, exitCbs, exitEvent,
                   killCalls, backendKills, writeCalls, childInput, raised>>
    /\ UNCHANGED <<relaunchVars, ptyVars, ttyVars, launcherVars>>

\* Fault variant of InstanceKill: the request is not passed to the backend.
InstanceKillDropped ==
    /\ ptyState \in {"running", "ended", "exited"}
    /\ OpCount < MaxOps
    /\ \E signal \in KillSignals : killCalls' = Append(killCalls, signal)
    /\ UNCHANGED <<spawnOptions, backendOpts, ptyState, ptyPid, spawnPid,
                   winSize, produced, delivered, dataCbs, exitCbs, exitEvent,
                   backendKills, writeCalls, childInput, resizeCalls, raised>>
    /\ UNCHANGED <<relaunchVars, ptyVars, ttyVars, launcherVars>>

\* esbuild.config.js:258-260: kill() { pty.kill(); } - whatever signal the
\* caller passes, the backend's kill is called with no argument.
InstanceKill ==
    /\ ptyState \in {"running", "ended", "exited"}
    /\ OpCount < MaxOps
    /\ \E signal \in KillSignals :
          /\ killCalls' = Append(killCalls, signal)
          /\ backendKills' = Append(backendKills, None)
    /\ UNCHANGED <<spawnOptions, backendOpts, ptyState, ptyPid, spawnPid,
                   winSize, produced, delivered, dataCbs, exitCbs, exitEvent,
                   writeCalls, childInput, resizeCalls, raised>>
    /\ UNCHANGED <<relaunchVars, ptyVars, ttyVars, launcherVars>>

\* The child writes a chunk to its terminal.
ChildProduces ==
    /\ ptyState = "running"
    /\ produced < MaxChunks
    /\ produced' = produced + 1
    /\ UNCHANGED <<spawnOptions, backendOpts, ptyState, ptyPid, spawnPid,
                   winSize, delivered, dataCbs, exitCbs, exitEvent, killCalls,
                   backendKills, writeCalls, childInput, resizeCalls, raised>>
    /\ UNCHANGED <<relaunchVars, ptyVars, ttyVars, launcherVars>>

\* The child ends by itself.
ChildExits ==
    /\ ptyState = "running"
    /\ \E code \in ExitCodes :
          exitEvent' = Some([exitCode |-> code, signal |-> None])
    /\ ptyState' = "ended"
    /\ UNCHANGED <<spawnOptions, backendOpts, ptyPid, spawnPid, winSize,
                   produced, delivered, dataCbs, exitCbs, killCalls,
                   backendKills, writeCalls, childInput, resizeCalls, raised>>
    /\ UNCHANGED <<relaunchVars, ptyVars, ttyVars, launcherVars>>

\* bun-pty: the first kill request on a live child ends it.
KillTakesEffect ==
    /\ ptyState = "running"
    /\ backendKills # << >>
    /\ \E code \in ExitCodes :
          exitEvent' = Some([exitCode |-> code,
                             signal |-> Some(BackendKillSignal(backendKills[1]))])
    /\ ptyState' = "ended"
    /\ UNCHANGED <<spawnOptions, backendOpts, ptyPid, spawnPid, winSize,
                   produced, delivered, dataCbs, exitCbs, killCalls,
                   backendKills, writeCalls, childInput, resizeCalls, raised>>
    /\ UNCHANGED <<relaunchVars, ptyVars, ttyVars, launcherVars>>

\* bun-pty: the next buffered chunk is fired as a data event.
DeliverData ==
    /\ ptyState \in {"running", "ended"}
    /\ delivered < produced
    /\ delivered' = delivered + 1
    /\ dataCbs' = BackendFireData(dataCbs, delivered + 1)
    /\ UNCHANGED <<spawnOptions, backendOpts, ptyState, ptyPid, spawnPid,
                   winSize, produced, exitCbs, exitEvent, killCalls,
                   backendKills, writeCalls, childInput, resizeCalls, raised>>
    /\ UNCHANGED <<relaunchVars, ptyVars, ttyVars, launcherVars>>

\* bun-pty: once the child has ended and its output is drained the exit event
\* is fired, once; each listener is the wrapper of lines 251-253.
DeliverExit ==
    /\ ptyState = "ended"
    /\ delivered = produced
    /\ ptyState' = "exited"
    /\ exitCbs' = [i \in 1..Len(exitCbs) |-> WrapExit(exitCbs[i], exitEvent[1])]
    /\ UNCHANGED <<spawnOptions, backendOpts, ptyPid, spawnPid, winSize,
                   produced, delivered, dataCbs, exitEvent, killCalls,
                   backendKills, writeCalls, childInput, resizeCalls, raised>>
    /\ UNCHANGED <<relaunchVars, ptyVars, ttyVars, launcherVars>>

SessionNext ==
    \/ InstanceOnData
    \/ InstanceOnExit
    \/ InstanceWrite
    \/ InstanceResize
    \/ InstanceKill
    \/ ChildProduces
    \/ ChildExits
    \/ KillTakesEffect
    \/ DeliverData
    \/ DeliverExit

\* adapter.spawn(command, args, {}) has just returned the instance.
SessionInit ==
    /\ AdapterReady
    /\ RelaunchParked
    /\ TtyParked
    /\ LauncherParked
    /\ spawnOptions = Some(EmptyOptions)
    /\ backendOpts = Some(BackendOptions(EmptyOptions))
    /\ ptyState = "running"
    /\ ptyPid \in Pids
    /\ spawnPid = ptyPid
    /\ winSize = <<DefaultCols, DefaultRows>>
    /\ produced = 0
    /\ delivered = 0
    /\ dataCbs = << >>
    /\ exitCbs = << >>
    /\ exitEvent = None
    /\ killCalls = << >>
    /\ backendKills = << >>
    /\ writeCalls = 0
    /\ childInput = 0
    /\ resizeCalls = 0
    /\ raised = 0

\* The life of one instance.
SessionSpec == SessionInit /\ [][SessionNext]_vars

\* The backend runs on the event loop: a requested kill, a buffered chunk and
\* a due exit event are not postponed for ever.
SessionFairSpec ==
    /\ SessionSpec
    /\ WF_vars(KillTakesEffect)
    /\ WF_vars(DeliverData)
    /\ WF_vars(DeliverExit)

\* The chunks a data listener registered after `from` deliveries has been
\* given once `upto` chunks are delivered.
ChunksSince(from, upto) == [k \in 1..(upto - from) |-> from + k]

\* What is frozen once the child is gone.
frozenVars ==
    <<childInput, winSize, ptyState, ptyPid, exitEvent, produced, delivered,
      dataCbs, exitCbs, raised>>

C16_DataFanOut ==
    /\ [](\A j \in 1..Len(dataCbs) :
             dataCbs[j].log = ChunksSince(dataCbs[j].from, delivered))
    /\ [][\A j \in 1..Len(dataCbs) :
             /\ Len(dataCbs') >= j
             /\ dataCbs'[j].cb = dataCbs[j].cb]_vars

C16_Witness ==
    /\ Len(dataCbs) = 2
    /\ dataCbs[1].log = <<1, 2>>
    /\ dataCbs[2].log = <<1, 2>>

C18_CallerSignalReachesBackend ==
    \A i \in 1..Len(killCalls) :
        killCalls[i] # None =>
            /\ Len(backendKills) >= i
            /\ backendKills[i] = killCalls[i]

\* C20: the pid read from the instance is the pid it was created with, and
\* a resize neither changes it nor raises; on a live child it sets the size.
C20_ResizeKeepsPid ==
    /\ [](ptyPid = spawnPid)
    /\ [][resizeCalls' # resizeCalls =>
             /\ ptyPid' = ptyPid
             /\ raised' = raised
             /\ ptyState = "running" => winSize' = ResizeTo]_vars

C20_Witness ==
    /\ ptyState = "running"
    /\ resizeCalls = 1
    /\ winSize = ResizeTo
    /\ produced = 2
    /\ delivered = 1
    /\ ptyPid = spawnPid

\* ------------------------------------------------------------------------
\* Further properties of the relaunch supervisor
\* ------------------------------------------------------------------------

\* C23: relaunchOnExitCode leaves its loop only through process.exit: it
\* never returns to its caller, an exit follows a returned code other than
\* the sentinel or a failure of the runner, and with children that end and
\* a bounded number of sentinel closes the process eventually exits.
C23_LoopEndsOnlyByExit ==
    /\ [][(pc = "loop" \/ pc = "paused" \/ pc = "awaiting")
             => pc' # "returned"]_vars
    /\ [](pc = "exited" =>
             \/ /\ promise = "fulfilled"
                /\ returns # << >>
                /\ returns[Len(returns)] # RELAUNCH_EXIT_CODE
             \/ promise = "rejected")
    /\ [](\A i \in 1..(Len(returns) - 1) : returns[i] = RELAUNCH_EXIT_CODE)
    /\ (pc = "loop") ~> (pc = "exited")

C23_Witness ==
    /\ pc = "exited"
    /\ runnerCalls = 3
    /\ Len(returns) = 2
    /\ promise = "rejected"

\* C24: every child is spawned with additionalBunArgs, then argv[1], then
\* additionalScriptArgs, then argv[2..], and all restarts use that same
\* list.
C24_SameInvocation ==
    \A i \in 1..Len(spawns) :
        LET a == spawns[i]
            n1 == Len(bunArgs)
            n2 == Len(scriptExtra)
            n3 == Len(userArgs)
        IN  /\ Len(a) = n1 + 1 + n2 + n3
            /\ \A j \in 1..n1 : a[j] = bunArgs[j]
            /\ a[n1 + 1] = argv1
            /\ \A j \in 1..n2 : a[n1 + 1 + j] = scriptExtra[j]
            /\ \A j \in 1..n3 : a[n1 + 1 + n2 + j] = userArgs[j]
            /\ a = spawns[1]

C24_Witness ==
    /\ Len(spawns) = 3
    /\ bunArgs # << >>
    /\ scriptExtra # << >>
    /\ userArgs # << >>

\* C25: a child is spawned only when no child is alive: the first one, or
\* one after the previous child's 'close' was handled and the runner
\* returned the sentinel; after an 'error' event no child is spawned.
C25_OneChildAtATime ==
    /\ [][Len(spawns') > Len(spawns) =>
             /\ child # "alive"
             /\ spawns # << >> =>
                   /\ closeSeen
                   /\ ~errorSeen
                   /\ Len(returns) = Len(spawns)
                   /\ returns[Len(returns)] = RELAUNCH_EXIT_CODE]_vars
    /\ [][errorSeen => spawns' = spawns]_vars

C25_Witness ==
    /\ Len(spawns) = 2
    /\ child = "alive"
    /\ returns = <<RELAUNCH_EXIT_CODE>>

\* C26: a close without a code is resolved as 1; when 1 is not the sentinel
\* the loop takes it as the final code, the process exits with 1 and no
\* further child is spawned.
C26_NullCloseIsOne ==
    /\ []((promise = "fulfilled" /\ child = "ended" /\ childCode = None)
             => promiseValue = Some(1))
    /\ [][(/\ 1 # RELAUNCH_EXIT_CODE
           /\ child = "ended"
           /\ childCode = None
           /\ closeSeen)
             => /\ spawns' = spawns
                /\ pc' \in {"awaiting", "exited"}
                /\ pc' = "exited" => exitCode' = Some(1)]_vars

C26_Witness ==
    /\ pc = "exited"
    /\ child = "ended"
    /\ childCode = None
    /\ promise = "fulfilled"
    /\ exitCode = Some(1)
    /\ Len(spawns) = 2

\* C22: a finished createPtyAdapter call gave null or an adapter tagged with
\* a known backend, and all adapters of the process carry the same tag.
C22_BackendTagClosed ==
    /\ \A i \in 1..Len(adapterCalls) :
          (adapterCalls[i].st = "done" /\ adapterCalls[i].result # None) =>
             adapterCalls[i].result[1].backend \in {"bun-terminal", "bun-pty"}
    /\ \A i, j \in 1..Len(adapterCalls) :
          (adapterCalls[i].result # None /\ adapterCalls[j].result # None) =>
             adapterCalls[i].result[1].backend = adapterCalls[j].result[1].backend

C22_Witness ==
    /\ Len(adapterCalls) = 4
    /\ adapterCalls[1].st = "done" /\ adapterCalls[1].result = None
    /\ adapterCalls[2].result # None
    /\ adapterCalls[4].result # None
    /\ adapterCalls[2].result[1].backend = "bun-pty"

\* ------------------------------------------------------------------------
\* TTY capability probe (packages/cli/src/utils/ttyUtils.ts)
\* ------------------------------------------------------------------------

\* Calls of the two queries in one run.
MaxTtyCalls == 2

\* Values of stream.isTTY, and outcomes of tty.isatty(fd).
TtyFlags == {"undefined", "true", "false"}
ProbeOutcomes == {"true", "false", "throws"}

\* Fault variant of IsStdinTTY: the probe is not guarded, its failure leaves
\* the function as an exception.
IsStdinTTYNoCatch(flag, probe) ==
    IF flag = "true" THEN "true"
    ELSE IF probe[0] = "throws" THEN "threw"
    ELSE probe[0]

\* ttyUtils.ts:13-24.
IsStdinTTY(flag, probe) ==
    IF flag = "true" THEN "true"
    ELSE IF probe[0] = "throws" THEN "false"
    ELSE probe[0]

\* ttyUtils.ts:30-41.
IsStdoutTTY(flag, probe) ==
    IF flag = "true" THEN "true"
    ELSE IF probe[1] = "throws" THEN "false"
    ELSE probe[1]

\* A call of isStdinTTY; its result is recorded.
CallIsStdinTTY ==
    /\ Len(ttyCalls) < MaxTtyCalls
    /\ ttyCalls' = Append(ttyCalls, [fn |-> "isStdinTTY",
                                     result |-> IsStdinTTY(stdinFlag, isatty)])
    /\ UNCHANGED <<stdinFlag, stdoutFlag, isatty>>
    /\ UNCHANGED <<relaunchVars, ptyVars, sessionVars, launcherVars>>

\* A call of isStdoutTTY; its result is recorded.
CallIsStdoutTTY ==
    /\ Len(ttyCalls) < MaxTtyCalls
    /\ ttyCalls' = Append(ttyCalls, [fn |-> "isStdoutTTY",
                                     result |-> IsStdoutTTY(stdoutFlag, isatty)])
    /\ UNCHANGED <<stdinFlag, stdoutFlag, isatty>>
    /\ UNCHANGED <<relaunchVars, ptyVars, sessionVars, launcherVars>>

TtyNext ==
    \/ CallIsStdinTTY
    \/ CallIsStdoutTTY

TtyInit ==
    /\ stdinFlag \in TtyFlags
    /\ stdoutFlag \in TtyFlags
    /\ isatty \in [{0, 1} -> ProbeOutcomes]
    /\ ttyCalls = << >>
    /\ RelaunchParked /\ PtyParked /\ SessionParked /\ LauncherParked

TtySpec == TtyInit /\ [][TtyNext]_vars

\* C21: each query ends with true or false, never with an exception: true
\* when its stream's isTTY is true, else what tty.isatty says of its own
\* descriptor (0 for stdin, 1 for stdout), false when that probe fails; the
\* answer for one stream does not depend on the other stream.
C21_TtyProbeCollapses ==
    \A i \in 1..Len(ttyCalls) :
        LET c == ttyCalls[i]
            flag == IF c.fn = "isStdinTTY" THEN stdinFlag ELSE stdoutFlag
            fd == IF c.fn = "isStdinTTY" THEN 0 ELSE 1
        IN  /\ c.result \in {"true", "false"}
            /\ c.result = "true" <=> (flag = "true" \/ isatty[fd] = "true")

C21_Witness ==
    /\ isatty[0] = "throws"
    /\ stdinFlag = "undefined"
    /\ stdoutFlag = "false"
    /\ isatty[1] = "true"
    /\ ttyCalls = <<[fn |-> "isStdinTTY", result |-> "false"],
                    [fn |-> "isStdoutTTY", result |-> "true"]>>

\* ------------------------------------------------------------------------
\* The generated launcher (scripts/build-wrapper.ts:93-220)
\* ------------------------------------------------------------------------

\* Values of process.env.GEMINI_BIN_PATH.
EnvPathChoices == {None, Some(""), Some("/opt/gemini")}

\* Values of os.platform() and os.arch().
Platforms == {"linux", "darwin", "win32"}
Archs == {"x64", "arm64"}

\* What the musl probes of lines 151-171 meet: `ldd --version` answering
\* without or with "musl", or failing with /lib holding a musl file, holding
\* none, or unreadable.
LibcProbes == {"ldd-glibc", "ldd-musl", "lib-musl", "lib-glibc", "lib-unreadable"}

\* Platform packages found in the node_modules directories above the
\* script; a package is named by platform, arch and suffix, plain or
\* "-baseline".
InstalledChoices ==
    { {},
      {[name |-> <<"linux", "x64", "">>, baseline |-> FALSE]},
      {[name |-> <<"linux", "x64", "-musl">>, baseline |-> FALSE]},
      {[name |-> <<"darwin", "arm64", "">>, baseline |-> TRUE]},
      {[name |-> <<"windows", "x64", "">>, baseline |-> FALSE]} }

\* What spawnSync returns: a spawn error, a numeric status, or neither (the
\* binary was ended by a signal).
SpawnResults ==
    { [error |-> Some("ENOENT"), status |-> None],
      [error |-> None, status |-> Some(0)],
      [error |-> None, status |-> Some(3)],
      [error |-> None, status |-> None] }

\* build-wrapper.ts:135-146: platformMap[osPlatform()] || osPlatform().
MapPlatform(p) == IF p = "win32" THEN "windows" ELSE p

\* build-wrapper.ts:150-171.
MuslSuffix(p, probe) ==
    IF p = "linux" /\ probe \in {"ldd-musl", "lib-musl"} THEN "-musl" ELSE ""

\* build-wrapper.ts:173: the package name after the fixed prefix.
BaseName(p, a, probe) == <<MapPlatform(p), a, MuslSuffix(p, probe)>>

\* build-wrapper.ts:176-197: the first entry named base or base-baseline
\* whose binary exists, or null.
FindBinary(b, inst) ==
    IF \E e \in inst : e.name = b
      THEN Some([package |-> CHOOSE e \in inst : e.name = b,
                 file |-> IF b[1] = "windows" THEN "gemini.exe" ELSE "gemini"])
      ELSE None

\* Fault variant of LauncherExitCode: a binary that ended without a numeric
\* status counts as a failure.
LauncherExitCodeSignalFails(result) ==
    IF result.error # None THEN 1
    ELSE IF result.status # None THEN result.status[1]
    ELSE 1

\* build-wrapper.ts:120-125: the code run() exits with.
LauncherExitCode(result) ==
    IF result.error # None THEN 1
    ELSE IF result.status # None THEN result.status[1]
    ELSE 0

\* build-wrapper.ts:121: what run() writes before exiting on a spawn error.
RunErrorLines(result) ==
    IF result.error # None THEN <<result.error[1]>> ELSE << >>

\* build-wrapper.ts:129-132 with 115-126: the override is truthy, run(envPath).
LaunchOverride ==
    /\ lpc = "start"
    /\ Truthy(envPath)
    /\ \E r \in SpawnResults :
          /\ spawnResult' = Some(r)
          /\ launcherExit' = Some(LauncherExitCode(r))
          /\ launcherErr' = launcherErr \o RunErrorLines(r)
    /\ launched' = envPath
    /\ lpc' = "exited"
    /\ UNCHANGED <<envPath, osPlatform, osArch, libc, installed, base, lookups>>
    /\ UNCHANGED <<relaunchVars, ptyVars, sessionVars, ttyVars>>

\* build-wrapper.ts:130 and 134-174: no usable override; the platform, the
\* architecture and the libc are detected and the package name is built.
DetectPlatform ==
    /\ lpc = "start"
    /\ ~Truthy(envPath)
    /\ base' = Some(BaseName(osPlatform, osArch, libc))
    /\ lpc' = "detected"
    /\ UNCHANGED <<envPath, osPlatform, osArch, libc, installed, lookups,
                   launched, spawnResult, launcherExit, launcherErr>>
    /\ UNCHANGED <<relaunchVars, ptyVars, sessionVars, ttyVars>>

\* build-wrapper.ts:200-218: findBinary finds nothing; the launcher reports
\* it and exits with 1.
LookupFails ==
    /\ lpc = "detected"
    /\ FindBinary(base[1], installed) = None
    /\ lookups' = lookups + 1
    /\ launcherErr' = Append(launcherErr, "no binary for this platform")
    /\ launcherExit' = Some(1)
    /\ lpc' = "exited"
    /\ UNCHANGED <<envPath, osPlatform, osArch, libc, installed, base,
                   launched, spawnResult>>
    /\ UNCHANGED <<relaunchVars, ptyVars, sessionVars, ttyVars>>

\* build-wrapper.ts:200-202 and 220 with 115-126: run(resolved).
LookupRuns ==
    /\ lpc = "detected"
    /\ FindBinary(base[1], installed) # None
    /\ lookups' = lookups + 1
    /\ \E r \in SpawnResults :
          /\ spawnResult' = Some(r)
          /\ launcherExit' = Some(LauncherExitCode(r))
          /\ launcherErr' = launcherErr \o RunErrorLines(r)
    /\ launched' = FindBinary(base[1], installed)
    /\ lpc' = "exited"
    /\ UNCHANGED <<envPath, osPlatform, osArch, libc, installed, base>>
    /\ UNCHANGED <<relaunchVars, ptyVars, sessionVars, ttyVars>>

LauncherNext ==
    \/ LaunchOverride
    \/ DetectPlatform
    \/ LookupFails
    \/ LookupRuns

LauncherInit ==
    /\ envPath \in EnvPathChoices
    /\ osPlatform \in Platforms
    /\ osArch \in Archs
    /\ libc \in LibcProbes
    /\ installed \in InstalledChoices
    /\ lpc = "start"
    /\ base = None
    /\ lookups = 0
    /\ launched = None
    /\ spawnResult = None
    /\ launcherExit = None
    /\ launcherErr = << >>
    /\ RelaunchParked /\ PtyParked /\ SessionParked /\ TtyParked

LauncherSpec == LauncherInit /\ [][LauncherNext]_vars

\* The launcher's exit code follows what spawnSync returned: the numeric
\* status, 1 on a spawn error, 0 without a numeric status.
ExitFollowsBinary ==
    (lpc = "exited" /\ launched # None) =>
        \/ spawnResult[1].error # None /\ launcherExit = Some(1)
        \/ /\ spawnResult[1].error = None
           /\ spawnResult[1].status # None
           /\ launcherExit = spawnResult[1].status
        \/ /\ spawnResult[1].error = None
           /\ spawnResult[1].status = None
           /\ launcherExit = Some(0)

\* C27 as claimed: whenever GEMINI_BIN_PATH is set, no platform detection
\* and no lookup happen and the override is what is run; the exit code
\* follows the binary.
C27_SetOverrideSkipsDetection ==
    /\ envPath # None =>
          /\ base = None
          /\ lookups = 0
          /\ lpc = "exited" => launched = envPath
    /\ ExitFollowsBinary

\* C27 amended: the same for a GEMINI_BIN_PATH set to a non-empty value; an
\* empty value counts as unset.
C27_NonEmptyOverrideSkipsDetection ==
    /\ Truthy(envPath) =>
          /\ base = None
          /\ lookups = 0
          /\ lpc = "exited" => launched = envPath
    /\ (envPath = Some("") /\ lpc = "exited") =>
          /\ base # None
          /\ lookups = 1
    /\ ExitFollowsBinary

C27_Witness ==
    /\ envPath = Some("/opt/gemini")
    /\ installed # {}
    /\ lpc = "exited"
    /\ launched = Some("/opt/gemini")
    /\ spawnResult = Some([error |-> None, status |-> None])
    /\ launcherExit = Some(0)

====
